---- MODULE Spec2Model ----
(***************************************************************************)
(* Authoduino control loop (src/arduino/authoduino/authoduino.ino).        *)
(*                                                                         *)
(* The sketch is a single-threaded Arduino program: setup() runs once,     *)
(* then loop() is called again and again.  The state of the model is the   *)
(* sketch's file-scope variables (state, lastcmd, lastread, lastmsg), the  *)
(* relay pin, the serial receive buffer, the lines written to Serial, the  *)
(* millis() counter and the position inside loop().                        *)
(*                                                                         *)
(* Time.  millis() is an unsigned long (32 bits, wraps at 2^32) and the    *)
(* intervals are 3000, 5000 and 30000 ms.  TLC's integers cannot hold 2^32 *)
(* and a clock of that size cannot be enumerated, so the model keeps the   *)
(* arithmetic (unsigned subtraction modulo the counter's modulus, the      *)
(* same comparisons) and scales the numbers: the counter wraps at M and    *)
(* the three intervals keep their order,                                   *)
(*   BUTTON_INTERVAL_TIME < ABANDONED_MSG_INTERVAL < ABANDONED_TIME < M.   *)
(* millis() is read once per iteration: the clock advances between         *)
(* iterations only (an iteration takes far less than an interval).         *)
(*                                                                         *)
(* Not modelled: led() and lastblink (lines 163-174).  They drive the two  *)
(* indicator pins only and never touch state, relay, the timestamps above  *)
(* or Serial.                                                              *)
(***************************************************************************)
EXTENDS Integers, Sequences, FiniteSets, TLC

\* ------------------------------------------------------------------ bounds
\* Modulus of the millis() counter (2^32 in the sketch).
M == 7
\* Capacity of the serial receive buffer (64 bytes on the board).
MaxBuf == 1
\* Longest burst of bytes waiting in the receive buffer when loop() starts.
MaxBurst == 3

\* ------------------------------------------------- timing constants, scaled
BUTTON_INTERVAL_TIME == 2
ABANDONED_MSG_INTERVAL == 3
ABANDONED_TIME == 4

\* ------------------------------------------------------------------- enums
NONE == "NONE"
ENABLE == "ENABLE"
DISABLE == "DISABLE"
PING == "PING"
Command == {NONE, ENABLE, DISABLE, PING}

ABANDONED == "ABANDONED"
\* The enum value ENABLED; the bare word is reserved in TLA+.
ST_ENABLED == "ENABLED"
DISABLED == "DISABLED"
State == {ABANDONED, ST_ENABLED, DISABLED}

HIGH == "HIGH"
LOW == "LOW"

\* Bytes the managing device may send: the three commands and one other byte.
Bytes == {"E", "D", "P", "x"}

\* ------------------------------------------------------ unsigned arithmetic
\* a - b on unsigned long: the result wraps modulo the counter's modulus.
USub(a, b) == (a - b) % M

\* Saturating count of elapsed ticks (history variables only).
Sat(n) == IF n >= M THEN M ELSE n

\* -------------------------------------------------------------- OneWire CRC
RECURSIVE Xor(_, _, _)
\* Bitwise exclusive or of the low n bits of a and b.
Xor(a, b, n) ==
    IF n = 0 THEN 0
    ELSE ((a + b) % 2) + 2 * Xor(a \div 2, b \div 2, n - 1)

RECURSIVE crc8bits(_, _, _)
\* The inner loop of OneWire::crc8 for one byte: 8 shifts of the Dallas
\* polynomial x^8 + x^5 + x^4 + 1 (reflected, 0x8C = 140).
crc8bits(crc, inbyte, n) ==
    IF n = 0 THEN crc
    ELSE LET mix == (crc + inbyte) % 2
             sh == crc \div 2
         IN crc8bits(IF mix = 1 THEN Xor(sh, 140, 8) ELSE sh, inbyte \div 2, n - 1)

\* The byte table of OneWire::crc8 (dscrc_table): entry c is the CRC register
\* after shifting eight zero bits through a register holding c.
CrcTable == [c \in 0..255 |-> crc8bits(c, 0, 8)]

RECURSIVE crc8from(_, _, _)
\* crc = table[crc ^ byte] over the first len bytes of id.
crc8from(crc, id, len) ==
    IF len = 0 THEN crc
    ELSE CrcTable[Xor(crc8from(crc, id, len - 1), id[len], 8)]

\* OneWire::crc8(addr, len): CRC of the first len bytes.
crc8(id, len) == crc8from(0, id, len)

\* ----------------------------------------------------------- tokens on bus
NoToken == <<>>
Serial7 == <<1, 171, 5, 240, 0, 9, 16>>
GoodToken == Append(Serial7, crc8(Serial7, 7))
BadToken == Append(Serial7, (crc8(Serial7, 7) + 1) % 256)
Bus == {NoToken, GoodToken, BadToken}

\* ------------------------------------------------------------ readButton()
HexDigit == <<"0", "1", "2", "3", "4", "5", "6", "7",
              "8", "9", "A", "B", "C", "D", "E", "F">>

RECURSIVE PrintHex(_)
\* Serial.print(b, HEX): upper-case hexadecimal without leading zeros.
PrintHex(b) ==
    IF b < 16 THEN HexDigit[b + 1]
    ELSE PrintHex(b \div 16) \o HexDigit[(b % 16) + 1]

RECURSIVE DumpIdNoPad(_, _)
\* Variant: the padding "0" of bytes below 16 is forgotten.
DumpIdNoPad(id, n) ==
    IF n = 0 THEN ""
    ELSE DumpIdNoPad(id, n - 1) \o PrintHex(id[n])

RECURSIVE DumpId(_, _)
\* The for loop of readButton: bytes 1..n, each padded with "0" below 16.
DumpId(id, n) ==
    IF n = 0 THEN ""
    ELSE DumpId(id, n - 1) \o (IF id[n] < 16 THEN "0" ELSE "") \o PrintHex(id[n])

\* Variant: the checksum test of line 182 is missing.
readButtonNoCrc(tok) ==
    IF tok = NoToken THEN [ok |-> FALSE, lines |-> <<>>]
    ELSE [ok |-> TRUE, lines |-> << "<" \o DumpId(tok, 8) \o ">" >>]

\* readButton() with token tok on the bus: the value returned and the lines
\* printed.  ds.reset() and ds.search() answer zero when no device is there.
readButton(tok) ==
    IF tok = NoToken THEN [ok |-> FALSE, lines |-> <<>>]
    ELSE IF crc8(tok, 7) # tok[8] THEN [ok |-> FALSE, lines |-> <<>>]
    ELSE [ok |-> TRUE, lines |-> << "<" \o DumpId(tok, 8) \o ">" >>]

\* ------------------------------------------------------------ readSerial()
RECURSIVE readSerialFlush(_)
\* Variant: the bytes behind a recognized command are thrown away.
readSerialFlush(buf) ==
    IF buf = <<>> THEN [command |-> NONE, rest |-> <<>>, lines |-> <<>>]
    ELSE LET c == Head(buf) IN
         IF c = "E" THEN [command |-> ENABLE, rest |-> <<>>, lines |-> <<"ENABLED">>]
         ELSE IF c = "D" THEN [command |-> DISABLE, rest |-> <<>>, lines |-> <<"DISABLED">>]
         ELSE IF c = "P" THEN [command |-> PING, rest |-> <<>>, lines |-> <<"PONG">>]
         ELSE readSerialFlush(Tail(buf))

RECURSIVE readSerial(_)
\* readSerial() on receive buffer buf: the command returned, the bytes left
\* in the buffer and the lines printed.
readSerial(buf) ==
    IF buf = <<>> THEN [command |-> NONE, rest |-> <<>>, lines |-> <<>>]
    ELSE LET c == Head(buf) IN
         IF c = "E" THEN [command |-> ENABLE, rest |-> Tail(buf), lines |-> <<"ENABLED">>]
         ELSE IF c = "D" THEN [command |-> DISABLE, rest |-> Tail(buf), lines |-> <<"DISABLED">>]
         ELSE IF c = "P" THEN [command |-> PING, rest |-> Tail(buf), lines |-> <<"PONG">>]
         ELSE readSerial(Tail(buf))

\* ------------------------------------------------------ conditions of loop()
\* Variant: no overflow guard.
OverflowGuardNone(t, lc) == lc

\* Line 98-100: the overflow guard; the value of lastcmd after it.
OverflowGuard(t, lc) == IF t < lc THEN 0 ELSE lc

\* Variant: lastcmd is refreshed in every iteration.
RefreshCmdAlways(t, cmd, lc) == t

\* Variant: only a ping refreshes lastcmd.
RefreshCmdPingOnly(t, cmd, lc) == IF cmd = PING THEN t ELSE lc

\* Line 107-109: a command of any kind refreshes lastcmd.
RefreshCmd(t, cmd, lc) == IF cmd # NONE THEN t ELSE lc

\* Variant: the case of a ping falls into the case of ENABLE.
ApplyCommandPingEnables(cmd, st) ==
    IF cmd = ENABLE \/ cmd = PING THEN ST_ENABLED
    ELSE IF cmd = DISABLE THEN DISABLED
    ELSE st

\* Variant: a ping, too, leaves ABANDONED (for DISABLED).
ApplyCommandPingRevives(cmd, st) ==
    IF cmd = ENABLE THEN ST_ENABLED
    ELSE IF cmd = DISABLE THEN DISABLED
    ELSE IF cmd = PING /\ st = ABANDONED THEN DISABLED
    ELSE st

\* Line 112-121: the switch on the command.
ApplyCommand(cmd, st) ==
    IF cmd = ENABLE THEN ST_ENABLED
    ELSE IF cmd = DISABLE THEN DISABLED
    ELSE st

\* Variant: the second comparison (millis() > ABANDONED_TIME) is missing.
AbandonedExpiredNoGuard(t, lc) == USub(t, ABANDONED_TIME) > lc

\* Line 125: the test that declares the managing device gone.
AbandonedExpired(t, lc) == USub(t, ABANDONED_TIME) > lc /\ t > ABANDONED_TIME

\* Variant: >= in place of > in the first comparison.
ButtonDueAtLeast(t, lr) ==
    USub(t, BUTTON_INTERVAL_TIME) >= lr /\ t > BUTTON_INTERVAL_TIME

\* Line 132: the test that allows a new read of the 1-Wire bus.
ButtonDue(t, lr) == USub(t, BUTTON_INTERVAL_TIME) > lr /\ t > BUTTON_INTERVAL_TIME

\* Variant: the second comparison (millis() > interval) is missing.
BeaconDueNoGuard(t, lm) == USub(t, ABANDONED_MSG_INTERVAL) > lm

\* Line 154: the test that allows a new ABANDONED line.
BeaconDue(t, lm) == USub(t, ABANDONED_MSG_INTERVAL) > lm /\ t > ABANDONED_MSG_INTERVAL

\* Variant: the reader is polled in every state.
ReaderEnabledAlways(st) == TRUE

\* Line 130: iButtons are read only while a managing device is present.
ReaderEnabled(st) == st # ABANDONED

\* Variant: the new lines end up in front of the earlier ones.
PrintlnInFront(o, lines) == lines \o o

\* Serial.println: the lines are appended to what was printed before.
Println(o, lines) == o \o lines

\* Variant: only ABANDONED cuts the relay.
RelayLevelDisabledOn(st) == IF st = ABANDONED THEN LOW ELSE HIGH

\* Variant: only DISABLED cuts the relay.
RelayLevelAbandonedOn(st) == IF st = DISABLED THEN LOW ELSE HIGH

\* Line 140-153: the level written to PIN_RELAY for each state.
RelayLevel(st) == IF st = ST_ENABLED THEN HIGH ELSE LOW

\* ------------------------------------------------------------------- state
VARIABLES
    now,        \* millis()
    state,      \* static enum State state
    lastcmd,    \* static unsigned long lastcmd
    lastread,   \* static unsigned long lastread
    lastmsg,    \* static unsigned long lastmsg
    relay,      \* level of PIN_RELAY
    inbuf,      \* serial receive buffer (bytes not yet read)
    out,        \* lines printed to Serial since the current iteration began
    pc,         \* position in loop()
    command,    \* loop()'s local variable command
    presented,  \* what is on the 1-Wire bus at the read step of this iteration
    tried,      \* readButton() was called in this iteration
    sinceCmd,   \* history: ticks since the last command (or start), up to M
    sinceRead,  \* history: ticks since the last successful read (or start)
    sinceMsg,   \* history: ticks since the last ABANDONED line (or start)
    pre         \* history: values at the start of the current iteration

vars == <<now, state, lastcmd, lastread, lastmsg, relay, inbuf, out, pc,
          command, presented, tried, sinceCmd, sinceRead, sinceMsg, pre>>

\* The value of pre between two iterations.
NoPre == [sinceCmd |-> 0, sinceRead |-> 0, lastread |-> 0, inbuf |-> <<>>]

TypeOK ==
    /\ now \in 0..(M - 1)
    /\ state \in State
    /\ lastcmd \in 0..(M - 1)
    /\ lastread \in 0..(M - 1)
    /\ lastmsg \in 0..(M - 1)
    /\ relay \in {HIGH, LOW}
    /\ inbuf \in Seq(Bytes) /\ Len(inbuf) <= MaxBuf
    /\ out \in Seq(STRING)
    /\ pc \in {"loop", "expire", "button", "drive", "wait"}
    /\ command \in Command
    /\ presented \in Bus
    /\ tried \in BOOLEAN
    /\ sinceCmd \in 0..M /\ sinceRead \in 0..M /\ sinceMsg \in 0..M
    /\ pre.sinceCmd \in 0..M /\ pre.sinceRead \in 0..M
    /\ pre.lastread \in 0..(M - 1) /\ pre.inbuf \in Seq(Bytes)

\* The state when setup() returns: INIT printed, state ABANDONED, the pins
\* low, the timestamps at their initial 0 and (INIT_DELAY being shorter than
\* one model tick) the clock at 0.
Init ==
    /\ now = 0
    /\ state = ABANDONED
    /\ lastcmd = 0 /\ lastread = 0 /\ lastmsg = 0
    /\ relay = LOW
    /\ inbuf = <<>>
    /\ out = <<"INIT">>
    /\ pc = "loop"
    /\ command = NONE
    /\ presented = NoToken
    /\ tried = FALSE
    /\ sinceCmd = 0 /\ sinceRead = 0 /\ sinceMsg = 0
    /\ pre = NoPre

\* ------------------------------------------------------------- environment
\* One millisecond tick of the timer, taken at position p.
TickFrom(p) ==
    /\ pc = p
    /\ pc' = "loop"
    /\ now' = (now + 1) % M
    /\ sinceCmd' = Sat(sinceCmd + 1)
    /\ sinceRead' = Sat(sinceRead + 1)
    /\ sinceMsg' = Sat(sinceMsg + 1)
    /\ UNCHANGED <<state, lastcmd, lastread, lastmsg, relay, inbuf, out,
                   command, presented, tried, pre>>

\* One millisecond tick of the timer, between two calls of loop().
Tick == TickFrom("loop")

\* The managing device sends one byte.
Arrive ==
    /\ pc = "loop"
    /\ Len(inbuf) < MaxBuf
    /\ \E c \in Bytes : inbuf' = Append(inbuf, c)
    /\ UNCHANGED <<now, state, lastcmd, lastread, lastmsg, relay, out, pc,
                   command, presented, tried, sinceCmd, sinceRead, sinceMsg,
                   pre>>

\* ------------------------------------------------------------------ loop()
\* Lines 96-121: overflow guard, readSerial(), refresh of lastcmd, switch.
Ingest ==
    /\ pc = "loop"
    /\ LET r == readSerial(inbuf) IN
         /\ command' = r.command
         /\ inbuf' = r.rest
         /\ out' = Println(<<>>, r.lines)
         /\ lastcmd' = RefreshCmd(now, r.command, OverflowGuard(now, lastcmd))
         /\ state' = ApplyCommand(r.command, state)
         /\ sinceCmd' = IF r.command # NONE THEN 0 ELSE sinceCmd
    /\ pre' = [sinceCmd |-> sinceCmd, sinceRead |-> sinceRead,
                lastread |-> lastread, inbuf |-> inbuf]
    /\ pc' = "expire"
    /\ UNCHANGED <<now, lastread, lastmsg, relay, presented, tried,
                   sinceRead, sinceMsg>>

\* Lines 123-127: the watchdog.
Expire ==
    /\ pc = "expire"
    /\ state' = IF AbandonedExpired(now, lastcmd) THEN ABANDONED ELSE state
    /\ pc' = "button"
    /\ UNCHANGED <<now, lastcmd, lastread, lastmsg, relay, inbuf, out,
                   command, presented, tried, sinceCmd, sinceRead, sinceMsg,
                   pre>>

\* Variant: a successful read grants access by itself.
TokenReadGrants ==
    /\ pc = "button"
    /\ \E tok \in Bus :
         /\ presented' = tok
         /\ IF ReaderEnabled(state) /\ ButtonDue(now, lastread)
            THEN LET r == readButton(tok) IN
                   /\ tried' = TRUE
                   /\ out' = Println(out, r.lines)
                   /\ lastread' = IF r.ok THEN now ELSE lastread
                   /\ sinceRead' = IF r.ok THEN 0 ELSE sinceRead
                   /\ state' = IF r.ok THEN ST_ENABLED ELSE state
            ELSE /\ tried' = FALSE
                 /\ UNCHANGED <<out, lastread, sinceRead, state>>
    /\ pc' = "drive"
    /\ UNCHANGED <<now, lastcmd, lastmsg, relay, inbuf, command,
                   sinceCmd, sinceMsg, pre>>

\* Lines 129-137: the read of the 1-Wire bus.
TokenRead ==
    /\ pc = "button"
    /\ \E tok \in Bus :
         /\ presented' = tok
         /\ IF ReaderEnabled(state) /\ ButtonDue(now, lastread)
            THEN LET r == readButton(tok) IN
                   /\ tried' = TRUE
                   /\ out' = Println(out, r.lines)
                   /\ lastread' = IF r.ok THEN now ELSE lastread
                   /\ sinceRead' = IF r.ok THEN 0 ELSE sinceRead
            ELSE /\ tried' = FALSE
                 /\ UNCHANGED <<out, lastread, sinceRead>>
    /\ pc' = "drive"
    /\ UNCHANGED <<now, state, lastcmd, lastmsg, relay, inbuf, command,
                   sinceCmd, sinceMsg, pre>>

\* Lines 139-160: the relay and, in ABANDONED, the beacon; loop() returns
\* and the program goes on at position p.
DriveTo(p) ==
    /\ pc = "drive"
    /\ relay' = RelayLevel(state)
    /\ IF state = ABANDONED /\ BeaconDue(now, lastmsg)
       THEN /\ out' = Println(out, <<"ABANDONED">>)
            /\ lastmsg' = now
            /\ sinceMsg' = 0
       ELSE UNCHANGED <<out, lastmsg, sinceMsg>>
    /\ pc' = p
    /\ command' = NONE
    /\ presented' = NoToken
    /\ tried' = FALSE
    /\ pre' = NoPre
    /\ UNCHANGED <<now, state, lastcmd, lastread, inbuf, sinceCmd, sinceRead>>

\* Lines 139-160, after which loop() may be called again at once.
Drive == DriveTo("loop")

Next == Tick \/ Arrive \/ Ingest \/ Expire \/ TokenRead \/ Drive

Spec == Init /\ [][Next]_vars

\* --------------------------------------------- loop() called at every tick
\* The timer ticks once after each return of loop(): every tick has exactly
\* one iteration.
TickAfterLoop == TickFrom("wait")

\* Lines 139-160, after which the next call of loop() waits for the tick.
DriveThenWait == DriveTo("wait")

NextEvery ==
    TickAfterLoop \/ Arrive \/ Ingest \/ Expire \/ TokenRead \/ DriveThenWait

\* main() calls loop() for ever and the timer interrupt keeps counting, so
\* no step of the loop and no tick is postponed for ever.
SpecEvery ==
    /\ Init
    /\ [][NextEvery]_vars
    /\ WF_vars(TickAfterLoop)
    /\ WF_vars(Ingest)
    /\ WF_vars(Expire)
    /\ WF_vars(TokenRead)
    /\ WF_vars(DriveThenWait)

\* ------------------------------------------- a burst in the receive buffer
\* All sequences of at most n bytes.
RECURSIVE BytesUpTo(_)
BytesUpTo(n) ==
    IF n = 0 THEN {<<>>}
    ELSE LET shorter == BytesUpTo(n - 1)
         IN shorter \cup {Append(b, c) : b \in shorter, c \in Bytes}

\* The managing device has sent a burst of bytes while setup() was waiting
\* (INIT_DELAY) and sends nothing more.
InitBurst ==
    /\ inbuf \in BytesUpTo(MaxBurst)
    /\ now = 0
    /\ state = ABANDONED
    /\ lastcmd = 0 /\ lastread = 0 /\ lastmsg = 0
    /\ relay = LOW
    /\ out = <<"INIT">>
    /\ pc = "loop"
    /\ command = NONE
    /\ presented = NoToken
    /\ tried = FALSE
    /\ sinceCmd = 0 /\ sinceRead = 0 /\ sinceMsg = 0
    /\ pre = NoPre

NextBurst == Tick \/ Ingest \/ Expire \/ TokenRead \/ Drive

SpecBurst == InitBurst /\ [][NextBurst]_vars

\* ================================================================== claims

\* The line readButton() prints for GoodToken: its 8 bytes 01 AB 05 F0 00 09
\* 10 15 as 16 upper-case hexadecimal digits between < and >.
IdLine == "<01AB05F000091015>"

\* The read step of this iteration printed the identifier and recorded the
\* read / printed nothing and left lastread alone.
Emitted == tried /\ Len(out) > 0 /\ out[Len(out)] = IdLine /\ lastread = now
NotEmitted ==
    /\ \A i \in 1..Len(out) : out[i] # IdLine
    /\ lastread = pre.lastread

\* C1: at the end of every iteration of loop() the relay is HIGH if and only
\* if the state computed in that iteration is ENABLED.
RelayFollowsState == pc = "loop" => (relay = HIGH <=> state = ST_ENABLED)

RelayFollowsStateWitness ==
    pc = "loop" /\ relay = HIGH /\ state = ST_ENABLED /\ sinceCmd > 0

\* C2: whenever, after the expiry step, more than ABANDONED_TIME ticks (and
\* less than one full turn of the counter) lie between the last command and
\* now, the state is ABANDONED.
WatchdogNeverLate ==
    (pc \in {"button", "drive"} /\ sinceCmd > ABANDONED_TIME /\ sinceCmd < M)
        => state = ABANDONED

\* C3 as claimed: an iteration that ingests ENABLE after more than
\* ABANDONED_TIME ticks of silence ends ABANDONED.
WatchdogOverridesGrant ==
    (pc = "drive" /\ command = ENABLE /\ pre.sinceCmd > ABANDONED_TIME)
        => state = ABANDONED

\* C3 as amended: an iteration that ingests ENABLE after more than
\* ABANDONED_TIME ticks of silence ends ENABLED with the relay HIGH (the
\* refresh of lastcmd comes before the expiry test).
GrantSurvivesSilence ==
    [][(pc = "drive" /\ command = ENABLE /\ pre.sinceCmd > ABANDONED_TIME)
          => (state' = ST_ENABLED /\ relay' = HIGH)]_vars

GrantSurvivesSilenceWitness ==
    /\ pc = "drive" /\ command = ENABLE /\ pre.sinceCmd > ABANDONED_TIME
    /\ state = ST_ENABLED

\* C4: the state leaves ABANDONED only in the ingestion step of an iteration
\* that ingests ENABLE or DISABLE; a PING refreshes lastcmd but an iteration
\* that is ABANDONED at the output step ends with the relay LOW.
PingDoesNotRescue ==
    [][/\ (state = ABANDONED /\ state' # ABANDONED)
            => (pc = "loop" /\ command' \in {ENABLE, DISABLE})
       /\ (pc = "loop" /\ pc' = "expire" /\ command' = PING) => lastcmd' = now
       /\ (pc = "drive" /\ state = ABANDONED) => relay' = LOW]_vars

PingDoesNotRescueWitness ==
    /\ pc = "drive" /\ command = PING /\ state = ABANDONED
    /\ pre.sinceCmd > ABANDONED_TIME /\ lastcmd = now /\ sinceCmd = 0

\* C5: the expiry step leaves the state alone while at most ABANDONED_TIME
\* ticks have passed since the last command, and forces ABANDONED in the
\* iteration exactly ABANDONED_TIME + 1 ticks after it.
WatchdogExact ==
    [][pc = "expire" =>
         /\ (sinceCmd <= ABANDONED_TIME => state' = state)
         /\ (sinceCmd = ABANDONED_TIME + 1 => state' = ABANDONED)]_vars

\* The second of two presentations of a valid token: an earlier read was
\* recorded at tick pre.lastread, the counter has not wrapped since and the
\* state is not ABANDONED.
SecondPresentation ==
    /\ pc = "drive" /\ state # ABANDONED /\ presented = GoodToken
    /\ pre.lastread # 0 /\ pre.lastread < now
    /\ pre.sinceRead = now - pre.lastread

\* C6 as claimed: the second presentation is emitted if and only if at least
\* BUTTON_INTERVAL_TIME ticks separate it from the first.
DebounceAtLeast ==
    SecondPresentation =>
        IF now - pre.lastread < BUTTON_INTERVAL_TIME THEN NotEmitted ELSE Emitted

\* C6 as amended: the second presentation is emitted if and only if more
\* than BUTTON_INTERVAL_TIME ticks separate it from the first.
DebounceMoreThan ==
    SecondPresentation =>
        IF now - pre.lastread <= BUTTON_INTERVAL_TIME THEN NotEmitted ELSE Emitted

DebounceMoreThanWitness ==
    SecondPresentation /\ now - pre.lastread > BUTTON_INTERVAL_TIME /\ Emitted

\* C7: a read step that meets a token with an invalid checksum prints
\* nothing and leaves state, lastread and the time since the last successful
\* read unchanged (so the ticks at which ButtonDue holds are unchanged).
InvalidReadTransparent ==
    [][(pc = "button" /\ presented' = BadToken)
          => /\ out' = out
             /\ state' = state
             /\ lastread' = lastread
             /\ sinceRead' = sinceRead]_vars

InvalidReadTransparentWitness ==
    /\ pc = "drive" /\ presented = BadToken /\ tried
    /\ lastread = pre.lastread /\ state # ABANDONED

\* C8: within one turn of the counter, readButton() is called exactly when
\* more than BUTTON_INTERVAL_TIME ticks have passed since the last successful
\* read, and the ABANDONED line is printed exactly when more than
\* ABANDONED_MSG_INTERVAL ticks have passed since the last one.
GateWrapExact ==
    [][/\ (pc = "button" /\ state # ABANDONED /\ sinceRead < M)
            => (tried' <=> sinceRead > BUTTON_INTERVAL_TIME)
       /\ (pc = "drive" /\ state = ABANDONED /\ sinceMsg < M)
            => (out' = Append(out, "ABANDONED")
                    <=> sinceMsg > ABANDONED_MSG_INTERVAL)]_vars

\* C9: while a timestamp still holds its initial 0, its gate stays shut at
\* every tick up to its interval: no ABANDONED line at a tick <=
\* ABANDONED_MSG_INTERVAL, no call of readButton() at a tick <=
\* BUTTON_INTERVAL_TIME, no forced ABANDONED at a tick <= ABANDONED_TIME.
StartupSuppression ==
    [][/\ (pc = "drive" /\ lastmsg = 0 /\ now <= ABANDONED_MSG_INTERVAL)
            => out' = out
       /\ (pc = "button" /\ lastread = 0 /\ now <= BUTTON_INTERVAL_TIME)
            => (~tried' /\ out' = out)
       /\ (pc = "expire" /\ lastcmd = 0 /\ now <= ABANDONED_TIME)
            => state' = state]_vars

StartupSuppressionWitness ==
    /\ pc = "drive" /\ state # ABANDONED /\ presented = GoodToken /\ ~tried
    /\ lastread = 0 /\ sinceRead = now
    /\ now > 0 /\ now <= BUTTON_INTERVAL_TIME

\* The token scenario from start: no read has been recorded since setup()
\* and the counter is in its first turn.
FirstPresentations ==
    /\ pc = "drive" /\ state # ABANDONED /\ presented = GoodToken
    /\ pre.lastread = 0 /\ pre.sinceRead = now

\* C10 as claimed: offered at tick 0 the token is emitted, offered before
\* BUTTON_INTERVAL_TIME it is not, offered one tick after it, it is.
TokenScenario ==
    FirstPresentations =>
        /\ (now = 0 => Emitted)
        /\ (now > 0 /\ now < BUTTON_INTERVAL_TIME => NotEmitted)
        /\ (now = BUTTON_INTERVAL_TIME + 1 => Emitted)

\* C10 as amended: offered at tick 0 or at any tick before
\* BUTTON_INTERVAL_TIME the token is not emitted; offered one tick after
\* BUTTON_INTERVAL_TIME it is emitted as "<", 16 hexadecimal digits, ">".
TokenScenarioFromStart ==
    FirstPresentations =>
        /\ (now < BUTTON_INTERVAL_TIME => NotEmitted /\ ~tried)
        /\ (now = BUTTON_INTERVAL_TIME + 1 => Emitted)

TokenScenarioFromStartWitness ==
    FirstPresentations /\ now = BUTTON_INTERVAL_TIME + 1 /\ Emitted

\* The last line printed in this iteration is the ABANDONED notice.
Beaconed == Len(out) > 0 /\ out[Len(out)] = "ABANDONED"

\* C11: with loop() called at every tick, if the state stays ABANDONED for
\* ever then the ABANDONED notice is printed again and again.
BeaconKeepsComing == <>[](state = ABANDONED) => []<>Beaconed

\* With loop() called at every tick: an iteration at a tick beyond
\* ABANDONED_TIME whose last command dates from before the counter's last
\* wrap has passed the expiry step in state ABANDONED.
AbandonedAfterWrap ==
    (pc \in {"button", "drive"} /\ sinceCmd > now /\ now > ABANDONED_TIME)
        => state = ABANDONED

\* C19: with loop() called at every tick, if from some point on no command is
\* ingested then from some point on the state is ABANDONED and the relay LOW
\* for ever; when the counter wraps during the silence this is so from tick
\* ABANDONED_TIME + 1 of the new turn at the latest.
SilenceEndsAbandoned ==
    /\ []AbandonedAfterWrap
    /\ <>[](command = NONE) => <>[](state = ABANDONED /\ relay = LOW)

SilenceEndsAbandonedWitness ==
    /\ pc = "drive" /\ state = ABANDONED /\ relay = HIGH
    /\ sinceCmd > now /\ sinceCmd < M /\ now = ABANDONED_TIME + 1

\* The bytes readSerial() recognizes, the command and the reply of each.
Recognized == {"E", "D", "P"}
CommandOfByte == [c \in Recognized |->
                    IF c = "E" THEN ENABLE ELSE IF c = "D" THEN DISABLE ELSE PING]
ReplyOfByte == [c \in Recognized |->
                  IF c = "E" THEN "ENABLED" ELSE IF c = "D" THEN "DISABLED" ELSE "PONG"]
Junk(buf) == \A i \in 1..Len(buf) : buf[i] \notin Recognized

\* C12: an iteration that finds only unrecognized bytes in the receive buffer
\* consumes them, returns NONE, prints nothing, leaves the state alone and
\* does not refresh lastcmd (the overflow guard alone may reset it); when
\* more than ABANDONED_TIME has passed since the last command, without a wrap
\* of the counter, the expiry step of that iteration declares ABANDONED.
UnrecognizedInert ==
    [][/\ (pc = "loop" /\ pc' = "expire" /\ inbuf # <<>> /\ Junk(inbuf))
            => /\ command' = NONE
               /\ inbuf' = <<>>
               /\ out' = <<>>
               /\ state' = state
               /\ sinceCmd' = sinceCmd
               /\ (lastcmd' = lastcmd \/ (now < lastcmd /\ lastcmd' = 0))
       /\ (pc = "expire" /\ pre.inbuf # <<>> /\ Junk(pre.inbuf)
              /\ sinceCmd > ABANDONED_TIME /\ sinceCmd <= now)
            => state' = ABANDONED]_vars

UnrecognizedInertWitness ==
    /\ pc = "expire" /\ Len(pre.inbuf) > 1 /\ Junk(pre.inbuf)
    /\ command = NONE /\ state = ST_ENABLED /\ lastcmd # now
    /\ sinceCmd > ABANDONED_TIME /\ sinceCmd <= now

\* C13: when the state after the expiry step is ABANDONED the read step
\* does not call readButton(), prints nothing and leaves lastread alone,
\* whatever is on the bus.
ReadGatedByState ==
    [][(pc = "button" /\ state = ABANDONED)
          => (~tried' /\ out' = out /\ lastread' = lastread)]_vars

ReadGatedByStateWitness ==
    /\ pc = "drive" /\ state = ABANDONED /\ presented = GoodToken /\ ~tried
    /\ now > BUTTON_INTERVAL_TIME /\ sinceRead > BUTTON_INTERVAL_TIME
    /\ sinceRead = now - lastread

\* C14: readSerial() removes the bytes up to and including the first
\* recognized one, returns its command and prints its reply once; without a
\* recognized byte it empties the buffer, returns NONE and prints nothing.
\* The bytes behind the first recognized one stay, in their order.
ParserConsumesPrefix ==
    [][(pc = "loop" /\ pc' = "expire")
          => \E k \in 0..Len(inbuf) :
               /\ \A i \in 1..k : inbuf[i] \notin Recognized
               /\ IF k = Len(inbuf)
                  THEN command' = NONE /\ out' = <<>> /\ inbuf' = <<>>
                  ELSE /\ inbuf[k + 1] \in Recognized
                       /\ command' = CommandOfByte[inbuf[k + 1]]
                       /\ out' = <<ReplyOfByte[inbuf[k + 1]]>>
                       /\ inbuf' = SubSeq(inbuf, k + 2, Len(inbuf))]_vars

ParserConsumesPrefixWitness ==
    /\ pc = "expire" /\ pre.inbuf = <<"x", "D", "E">>
    /\ command = DISABLE /\ inbuf = <<"E">> /\ out = <<"DISABLED">>

\* C15: INIT is printed by setup() and never again; ingestion opens the
\* iteration's output with at most one reply, and the read step and the
\* output step only append (an identifier line, the ABANDONED notice) behind
\* what the iteration has printed.
OutputOrdering ==
    /\ out = <<"INIT">>
    /\ [][/\ (pc = "loop" /\ pc' = "expire")
               => (out' = <<>> \/ (Len(out') = 1 /\ out'[1] \in
                                     {"ENABLED", "DISABLED", "PONG"}))
          /\ pc = "expire" => out' = out
          /\ pc = "button" => (out' = out \/ out' = Append(out, IdLine))
          /\ pc = "drive" => (out' = out \/ out' = Append(out, "ABANDONED"))
          /\ (\E i \in 1..Len(out') : out'[i] = "INIT") => out' = out]_vars

OutputOrderingWitness == pc = "drive" /\ out = <<"ENABLED", IdLine>>

\* C16: the read step changes neither the state nor lastcmd nor the relay,
\* whatever the reader finds; the state changes only when ENABLE or DISABLE
\* is ingested or when the expiry step forces ABANDONED.
ReaderFrame ==
    [][/\ pc = "button"
            => (state' = state /\ lastcmd' = lastcmd /\ sinceCmd' = sinceCmd
                /\ relay' = relay)
       /\ state' # state
            => \/ (pc = "loop" /\ command' \in {ENABLE, DISABLE})
               \/ (pc = "expire" /\ state' = ABANDONED)]_vars

ReaderFrameWitness ==
    /\ pc = "drive" /\ presented = GoodToken /\ Emitted
    /\ state = DISABLED /\ relay = LOW /\ sinceCmd > 0

\* C17 as claimed: at no point, inside an iteration or between two, is the
\* relay HIGH while the state is ABANDONED or DISABLED.
NoTransientRelay == relay = HIGH => state = ST_ENABLED

\* C17 as amended: the relay is HIGH while the state is DISABLED or ABANDONED
\* only inside the iteration that made the change, after its DISABLE was
\* ingested or its expiry test fired and before its output step.
TransientOnlyInside ==
    (relay = HIGH /\ state # ST_ENABLED)
        => \/ /\ pc \in {"expire", "button", "drive"}
              /\ command = DISABLE /\ state = DISABLED
           \/ /\ pc \in {"button", "drive"}
              /\ command = NONE /\ state = ABANDONED
              /\ AbandonedExpired(now, lastcmd)

TransientOnlyInsideWitness ==
    /\ pc = "drive" /\ relay = HIGH /\ state = ABANDONED
    /\ tried = FALSE /\ presented = GoodToken

\* C18: in an iteration that ingests a command the expiry step leaves the
\* state alone; with ENABLE the iteration ends ENABLED with the relay HIGH,
\* with DISABLE it ends DISABLED with the relay LOW.
CommandProtectsIteration ==
    [][/\ (pc = "expire" /\ command # NONE)
            => (lastcmd = now /\ state' = state)
       /\ (pc = "drive" /\ command = ENABLE)
            => (state' = ST_ENABLED /\ relay' = HIGH)
       /\ (pc = "drive" /\ command = DISABLE)
            => (state' = DISABLED /\ relay' = LOW)]_vars

CommandProtectsIterationWitness ==
    /\ pc = "drive" /\ command = DISABLE /\ state = DISABLED
    /\ pre.sinceCmd > ABANDONED_TIME /\ now < ABANDONED_TIME

\* C20: after setup() the state is ABANDONED and the relay LOW; the state
\* becomes ENABLED only by ingesting ENABLE, and the relay goes HIGH only in
\* the output step of an iteration whose state is ENABLED, so that between
\* two iterations a HIGH relay means that the last change of the state was
\* made by ENABLE.
RelayNeedsGrant ==
    /\ state = ABANDONED /\ relay = LOW
    /\ [](pc = "loop" /\ relay = HIGH => state = ST_ENABLED)
    /\ [][/\ (state # ST_ENABLED /\ state' = ST_ENABLED)
               => (pc = "loop" /\ command' = ENABLE)
          /\ (relay = LOW /\ relay' = HIGH)
               => (pc = "drive" /\ state = ST_ENABLED)]_vars

RelayNeedsGrantWitness ==
    pc = "drive" /\ command = ENABLE /\ relay = LOW /\ state = ST_ENABLED

====
